---- MODULE Spec2Model ----
\* SWMonitor.py: a periodic ping monitor.  main() loads config.conf and
\* iplist.csv, then loops forever: monitor_ips() pings every host through a
\* ThreadPoolExecutor, folds each result into monitor_ips.failure_count as the
\* future completes, and hands the hosts at or above the threshold to
\* send_alert(), which calls the PushBot executable once per enabled platform.
EXTENDS Integers, Sequences, FiniteSets, TLC

\* ---------------------------------------------------------------- bounds
MaxHosts == 2       \* longest iplist.csv of the whole-program specification
MaxCycles == 3      \* monitoring cycles explored per run
PoolExtra == 1      \* hosts beyond max_workers in the executor specification
MaxPings == 3       \* largest ping_count of the ping_ip specification
MaxTime == 2        \* largest round-trip time, in ms, in a ping output
MaxTtls == 2        \* most TTL matches in a ping output

\* ------------------------------------------------------ program constants
max_workers == 50             \* ThreadPoolExecutor(max_workers=50)
fallback_interval == 300
fallback_ping_count == 3
fallback_ping_timeout == 1000
fallback_failure_threshold == 3

VARIABLES
    config_file,        \* config.conf as found on disk (input)
    csv_file,           \* iplist.csv as found on disk (input)
    pc,                 \* position of the control thread
    interval, platforms, ping_count, ping_timeout, failure_threshold,
    ip_list,            \* main(): list of (hostname, ip)
    has_failure_count,  \* hasattr(monitor_ips, "failure_count")
    failure_count,      \* monitor_ips.failure_count: ip -> int
    alert_list,         \* monitor_ips(): list of (hostname, ip, count)
    submitted,          \* futures submitted so far in this cycle
    started,            \* work items taken by a worker thread so far (FIFO)
    running,            \* host -> number of its ping_ip calls in flight
    finished,           \* host -> number of its done futures not yet yielded
    collected,          \* futures yielded by as_completed so far
    cur,                \* loop locals hostname, ip and what future.result() gave
    chan,               \* send_alert(): index of the platform being pushed
    message,            \* send_alert(): the report text, once built
    sink_log,           \* call_bot_exe calls of this cycle, in order (log)
    hist,               \* host -> results ping_ip returned for it since its
                        \* last reachable one, that one included (log)
    cycle,              \* cycles started so far
    ping_call,          \* one ping_ip call: its arguments, the platform and
                        \* what the ping command answers (input)
    ping_result,        \* that call: the command line built and the return value
    plan,               \* host -> what its probe of the cycle gives (input)
    start_count         \* failure_count as that cycle found it (input)

vars == <<config_file, csv_file, pc, interval, platforms, ping_count,
          ping_timeout, failure_threshold, ip_list, has_failure_count,
          failure_count, alert_list, submitted, started, running, finished,
          collected, cur, chan, message, sink_log, hist, cycle,
          ping_call, ping_result, plan, start_count>>

config_vars == <<interval, platforms, ping_count, ping_timeout, failure_threshold>>
input_vars == <<config_file, csv_file>>
pool_vars == <<submitted, started, running, finished, collected>>
\* Used by the specifications of one ping_ip call and of one cycle with
\* given probe results only.
detail_vars == <<ping_call, ping_result, plan, start_count>>

\* ----------------------------------------------------------------- inputs
Addrs == {"10.0.0.1", "10.0.0.2"}
Names == <<"A", "B", "C", "D">>

\* A key of config.conf: absent, an integer literal, or text int() rejects.
Absent == [kind |-> "absent", val |-> 0]
Bad == [kind |-> "bad", val |-> 0]
IntLit(n) == [kind |-> "int", val |-> n]

\* [platforms] enabled is given as its comma-separated items; "" is a blank
\* item.
Defaults ==
    [status |-> "ok", interval |-> Absent, enabled |-> <<>>, ping_count |-> Absent,
     ping_timeout |-> Absent, failure_threshold |-> Absent]

\* config.conf: missing, malformed, empty (every key absent), one key with a
\* value int() rejects, a negative interval, or thresholds and platforms set.
ConfigFiles ==
    {[Defaults EXCEPT !.status = s] : s \in {"missing", "malformed"}}
    \cup {Defaults}
    \cup {[Defaults EXCEPT !.interval = Bad], [Defaults EXCEPT !.ping_count = Bad],
          [Defaults EXCEPT !.ping_timeout = Bad],
          [Defaults EXCEPT !.failure_threshold = Bad]}
    \cup {[Defaults EXCEPT !.interval = IntLit(-1), !.failure_threshold = IntLit(1),
                           !.enabled = <<"x">>]}
    \cup {[Defaults EXCEPT !.failure_threshold = IntLit(2),
                           !.enabled = <<"x", "", "y">>]}

\* iplist.csv: row i carries the name Names[i] and an address cell.  The two
\* addresses are interchangeable, so the first cell is the first address or
\* empty; an empty cell makes load_ips_from_csv skip the row.
CellsOfLen(n) ==
    {c \in [1..n -> Addrs \cup {""}] :
        /\ n > 0 => c[1] \in {"10.0.0.1", ""}
        /\ \A i \in 2..n : c[i] # ""}
CsvFiles ==
    {[status |-> "missing", rows |-> <<>>]}
    \cup
    {[status |-> "ok", rows |-> [i \in 1..Len(cells) |-> <<Names[i], cells[i]>>]]
        : cells \in UNION {CellsOfLen(n) : n \in 0..MaxHosts}}

\* What a probe hands to future.result(): ping_ip returned reachable or
\* unreachable, or raised.
Outcomes == {"reachable", "unreachable", "fault"}
\* What one call_bot_exe does: the executable is missing, or subprocess.run
\* returns, raises CalledProcessError, or raises TimeoutExpired/another error.
SinkResults == {"missing", "ok", "nonzero", "timeout"}

NoCur == [hostname |-> "", ip |-> "", outcome |-> "none"]
NoMessage == <<>>
NoCall == [system |-> "none"]
NoResult == [args |-> <<>>]

\* ---------------------------------------------------------- pure functions
\* int(config.get(section, key, fallback=d)): the value, or ValueError.
config_int(field, d) ==
    CASE field.kind = "absent" -> [ok |-> TRUE, val |-> d]
      [] field.kind = "int" -> [ok |-> TRUE, val |-> field.val]
      [] OTHER -> [ok |-> FALSE, val |-> 0]

\* The list comprehension that drops the blank items of "enabled".
parse_platforms(items) == SelectSeq(items, LAMBDA t : t # "")

RowOk(row) == row[1] # "" /\ row[2] # ""
load_ips_from_csv(file) ==
    IF file.status = "ok" THEN SelectSeq(file.rows, RowOk) ELSE <<>>

\* Variant: "is not None" in place of the truth value.
Truthy_NotNone(list) == TRUE

\* Python truth value of a list.
Truthy(list) == Len(list) > 0

HostsOf(list) == {list[i] : i \in DOMAIN list}
IpsOf(list) == {list[i][2] : i \in DOMAIN list}

RECURSIVE BagSize(_, _)
BagSize(bag, S) ==
    IF S = {} THEN 0
    ELSE LET h == CHOOSE x \in S : TRUE IN bag[h] + BagSize(bag, S \ {h})

InFlight == BagSize(running, DOMAIN running)

\* Variant: an executor that starts a thread for every work item.
worker_available_Unbounded(inflight) == TRUE

\* A worker thread of the executor is free to take the next work item.
worker_available(inflight) == inflight < max_workers

count_failure(fc, ip) == [fc EXCEPT ![ip] = @ + 1]

\* Variants: a reachable result leaves the counter alone, lowers it by one,
\* or clears the counter of every address.
reset_failure_All(fc, ip) == [a \in DOMAIN fc |-> 0]
reset_failure_Skipped(fc, ip) == fc
reset_failure_Decay(fc, ip) == [fc EXCEPT ![ip] = @ - 1]

reset_failure(fc, ip) == [fc EXCEPT ![ip] = 0]

\* Variants: an exclusive comparison, and an alert on the crossing only.
threshold_reached_Exclusive(count, threshold) == count > threshold
threshold_reached_Once(count, threshold) == count = threshold

threshold_reached(count, threshold) == count >= threshold

\* Variant: a raised probe is counted as a failed one.
fold_result_FaultCounts(fc, ip, outcome) ==
    CASE outcome = "reachable" -> reset_failure(fc, ip)
      [] OTHER -> count_failure(fc, ip)

\* The body of the as_completed loop, on the counters.
fold_result(fc, ip, outcome) ==
    CASE outcome = "unreachable" -> count_failure(fc, ip)
      [] outcome = "reachable" -> reset_failure(fc, ip)
      [] OTHER -> fc

\* The body of the as_completed loop, on the alert list.
fold_alert(alerts, fc, hostname, ip, outcome, threshold) ==
    IF outcome = "unreachable" /\ threshold_reached(fc[ip], threshold)
    THEN Append(alerts, <<hostname, ip, fc[ip]>>)
    ELSE alerts

\* Variant: a report with the row of the last alert entry only.
format_report_LastOnly(alerts) ==
    <<"title", "rule", "heads", "rule">>
    \o <<[hostname |-> alerts[Len(alerts)][1], ip |-> alerts[Len(alerts)][2],
          count |-> alerts[Len(alerts)][3]]>>
    \o <<"rule", "time">>

\* The report of send_alert, line by line: a title, a rule, the column
\* heads, a rule, one row per alert entry in the order of the list (name,
\* address and count, padded), a rule and the time of the alert.
report_row(entry) == [hostname |-> entry[1], ip |-> entry[2], count |-> entry[3]]
format_report(alerts) ==
    <<"title", "rule", "heads", "rule">>
    \o [i \in DOMAIN alerts |-> report_row(alerts[i])]
    \o <<"rule", "time">>

\* ------------------------------------------------------------------ Init
\* The process has just started: nothing is read yet, the locals of main()
\* are unbound (shown as 0 and <<>>), monitor_ips has no attribute.
StartState ==
    /\ pc = "load_config"
    /\ interval = 0 /\ platforms = <<>> /\ ping_count = 0 /\ ping_timeout = 0
    /\ failure_threshold = 0
    /\ ip_list = <<>>
    /\ has_failure_count = FALSE /\ failure_count = <<>>
    /\ alert_list = <<>>
    /\ submitted = 0 /\ started = 0 /\ running = <<>> /\ finished = <<>>
    /\ collected = 0
    /\ cur = NoCur /\ chan = 0 /\ sink_log = <<>> /\ hist = <<>>
    /\ message = NoMessage
    /\ cycle = 0
    /\ ping_call = NoCall /\ ping_result = NoResult
    /\ plan = <<>> /\ start_count = <<>>

Init ==
    /\ config_file \in ConfigFiles
    /\ csv_file \in CsvFiles
    /\ StartState

\* ------------------------------------------------------------- main(): startup
\* load_config("config.conf"): open() or read_file() raises on a missing or
\* malformed file, and main() does not catch it.
main_load_config ==
    /\ pc = "load_config"
    /\ pc' = IF config_file.status = "ok" THEN "read_settings" ELSE "crashed"
    /\ UNCHANGED <<input_vars, detail_vars, config_vars, ip_list, has_failure_count,
                   failure_count, alert_list, pool_vars, cur, chan, message, sink_log,
                   hist, cycle>>

\* The five reads of the configuration; int() raises ValueError on a value
\* that is no integer literal, and main() does not catch it.
main_read_settings ==
    /\ pc = "read_settings"
    /\ LET i == config_int(config_file.interval, fallback_interval)
           c == config_int(config_file.ping_count, fallback_ping_count)
           t == config_int(config_file.ping_timeout, fallback_ping_timeout)
           f == config_int(config_file.failure_threshold, fallback_failure_threshold)
       IN IF i.ok /\ c.ok /\ t.ok /\ f.ok
          THEN /\ interval' = i.val
               /\ platforms' = parse_platforms(config_file.enabled)
               /\ ping_count' = c.val
               /\ ping_timeout' = t.val
               /\ failure_threshold' = f.val
               /\ pc' = "load_ips"
          ELSE /\ pc' = "crashed"
               /\ UNCHANGED config_vars
    /\ UNCHANGED <<input_vars, detail_vars, ip_list, has_failure_count, failure_count,
                   alert_list, pool_vars, cur, chan, message, sink_log, hist, cycle>>

\* ip_list = load_ips_from_csv("iplist.csv"); an empty list ends main().
main_load_ips ==
    /\ pc = "load_ips"
    /\ ip_list' = load_ips_from_csv(csv_file)
    /\ pc' = IF Truthy(ip_list') THEN "loop" ELSE "exited"
    /\ UNCHANGED <<input_vars, detail_vars, config_vars, has_failure_count, failure_count,
                   alert_list, pool_vars, cur, chan, message, sink_log, hist, cycle>>

\* --------------------------------------------------------------- monitor_ips
\* The top of "while True": the call of monitor_ips up to the creation of the
\* executor.  The first call creates failure_count, one key per address.
monitor_ips_begin ==
    /\ pc = "loop"
    /\ cycle < MaxCycles
    /\ cycle' = cycle + 1
    /\ has_failure_count' = TRUE
    /\ failure_count' = IF has_failure_count THEN failure_count
                        ELSE [ip \in IpsOf(ip_list) |-> 0]
    /\ alert_list' = <<>>
    /\ submitted' = 0 /\ started' = 0 /\ collected' = 0
    /\ running' = [h \in HostsOf(ip_list) |-> 0]
    /\ finished' = [h \in HostsOf(ip_list) |-> 0]
    /\ cur' = NoCur /\ chan' = 0 /\ sink_log' = <<>> /\ message' = NoMessage
    /\ hist' = IF has_failure_count THEN hist
                ELSE [h \in HostsOf(ip_list) |-> <<>>]
    /\ pc' = "submit"
    /\ UNCHANGED <<input_vars, detail_vars, config_vars, ip_list>>

\* executor.submit(ping_ip, ...) for the next host of ip_list.
executor_submit ==
    /\ pc = "submit"
    /\ submitted < Len(ip_list)
    /\ submitted' = submitted + 1
    /\ pc' = IF submitted + 1 = Len(ip_list) THEN "as_completed" ELSE "submit"
    /\ UNCHANGED <<input_vars, detail_vars, config_vars, ip_list, has_failure_count,
                   failure_count, alert_list, started, running, finished,
                   collected, cur, chan, message, sink_log, hist, cycle>>

\* Variant: the worker runs the probe of its work item a second time.
worker_start_Retry ==
    /\ started < submitted
    /\ worker_available(InFlight)
    /\ started' = started + 1
    /\ running' = [running EXCEPT ![ip_list[started + 1]] = @ + 2]
    /\ UNCHANGED <<input_vars, detail_vars, config_vars, pc, ip_list, has_failure_count,
                   failure_count, alert_list, submitted, finished, collected,
                   cur, chan, message, sink_log, hist, cycle>>

\* A worker thread takes the oldest queued work item and enters ping_ip.
worker_start ==
    /\ started < submitted
    /\ worker_available(InFlight)
    /\ started' = started + 1
    /\ running' = [running EXCEPT ![ip_list[started + 1]] = @ + 1]
    /\ UNCHANGED <<input_vars, detail_vars, config_vars, pc, ip_list, has_failure_count,
                   failure_count, alert_list, submitted, finished, collected,
                   cur, chan, message, sink_log, hist, cycle>>

\* Variant: the worker thread counts the failure itself when ping_ip ends.
ping_ip_done_Counts(h) ==
    /\ running[h] > 0
    /\ running' = [running EXCEPT ![h] = @ - 1]
    /\ finished' = [finished EXCEPT ![h] = @ + 1]
    /\ failure_count' = count_failure(failure_count, h[2])
    /\ UNCHANGED <<input_vars, detail_vars, config_vars, pc, ip_list, has_failure_count,
                   alert_list, submitted, started, collected,
                   cur, chan, message, sink_log, hist, cycle>>

\* ping_ip returns or raises in its worker thread: the future is done.
ping_ip_done(h) ==
    /\ running[h] > 0
    /\ running' = [running EXCEPT ![h] = @ - 1]
    /\ finished' = [finished EXCEPT ![h] = @ + 1]
    /\ UNCHANGED <<input_vars, detail_vars, config_vars, pc, ip_list, has_failure_count,
                   failure_count, alert_list, submitted, started, collected,
                   cur, chan, message, sink_log, hist, cycle>>

\* One turn of "for future in as_completed(...)": the control thread takes a
\* done future of host h; future.result() returns or raises, and the body
\* updates the counter and the alert list.
as_completed_next(h, outcome) ==
    /\ pc = "as_completed"
    /\ finished[h] > 0
    /\ finished' = [finished EXCEPT ![h] = @ - 1]
    /\ collected' = collected + 1
    /\ cur' = [hostname |-> h[1], ip |-> h[2], outcome |-> outcome]
    /\ failure_count' = fold_result(failure_count, h[2], outcome)
    /\ alert_list' = fold_alert(alert_list, failure_count', h[1], h[2], outcome,
                                failure_threshold)
    /\ hist' = CASE outcome = "reachable" -> [hist EXCEPT ![h] = <<outcome>>]
                  [] outcome = "unreachable" -> [hist EXCEPT ![h] = Append(@, outcome)]
                  [] OTHER -> hist
    /\ UNCHANGED <<input_vars, detail_vars, config_vars, pc, ip_list, has_failure_count,
                   submitted, started, running, chan, message, sink_log, cycle>>

\* Variant: the loop is left after the first result.
monitor_ips_end_Early ==
    /\ pc = "as_completed"
    /\ collected >= 1
    /\ pc' = IF Truthy(alert_list) THEN "send_alert" ELSE "sleep"
    /\ cur' = NoCur
    /\ UNCHANGED <<input_vars, detail_vars, config_vars, ip_list, has_failure_count,
                   failure_count, alert_list, pool_vars, chan, message, sink_log,
                   hist, cycle>>

\* The loop and the with-block are left once every future was yielded (the
\* loop variables are dead from here on);
\* "if alert_list: send_alert(alert_list, platforms)".
monitor_ips_end ==
    /\ pc = "as_completed"
    /\ collected = Len(ip_list)
    /\ pc' = IF Truthy(alert_list) THEN "send_alert" ELSE "sleep"
    /\ cur' = NoCur
    /\ UNCHANGED <<input_vars, detail_vars, config_vars, ip_list, has_failure_count,
                   failure_count, alert_list, pool_vars, chan, message, sink_log,
                   hist, cycle>>

\* send_alert up to its loop: return on an empty list, else build the message.
send_alert ==
    /\ pc = "send_alert"
    /\ IF ~Truthy(alert_list)
       THEN pc' = "sleep" /\ chan' = chan /\ message' = message
       ELSE /\ message' = format_report(alert_list)
            /\ IF Len(platforms) = 0
               THEN pc' = "sleep" /\ chan' = chan
               ELSE pc' = "push" /\ chan' = 1
    /\ UNCHANGED <<input_vars, detail_vars, config_vars, ip_list, has_failure_count,
                   failure_count, alert_list, pool_vars, cur, sink_log, hist,
                   cycle>>

\* Variant: a failed push ends the loop of send_alert.
call_bot_exe_Abort(res) ==
    /\ pc = "push"
    /\ sink_log' = Append(sink_log, [platform |-> platforms[chan], res |-> res,
                                     message |-> message])
    /\ chan' = chan + 1
    /\ pc' = IF chan = Len(platforms) \/ res \in {"nonzero", "timeout"}
             THEN "sleep" ELSE "push"
    /\ UNCHANGED <<input_vars, detail_vars, config_vars, ip_list, has_failure_count,
                   failure_count, alert_list, pool_vars, cur, message, hist,
                   cycle>>

\* call_bot_exe(platforms[chan], message): every failure is logged inside it,
\* and the loop of send_alert goes on.
call_bot_exe(res) ==
    /\ pc = "push"
    /\ sink_log' = Append(sink_log, [platform |-> platforms[chan], res |-> res,
                                     message |-> message])
    /\ chan' = chan + 1
    /\ pc' = IF chan = Len(platforms) THEN "sleep" ELSE "push"
    /\ UNCHANGED <<input_vars, detail_vars, config_vars, ip_list, has_failure_count,
                   failure_count, alert_list, pool_vars, cur, message, hist,
                   cycle>>

\* time.sleep(interval) raises ValueError on a negative interval.
main_sleep ==
    /\ pc = "sleep"
    /\ pc' = IF interval < 0 THEN "crashed" ELSE "loop"
    /\ UNCHANGED <<input_vars, detail_vars, config_vars, ip_list, has_failure_count,
                   failure_count, alert_list, pool_vars, cur, chan, message, sink_log,
                   hist, cycle>>

Next ==
    \/ main_load_config
    \/ main_read_settings
    \/ main_load_ips
    \/ monitor_ips_begin
    \/ executor_submit
    \/ worker_start
    \/ \E h \in DOMAIN running : ping_ip_done(h)
    \/ \E h \in DOMAIN finished, o \in Outcomes : as_completed_next(h, o)
    \/ monitor_ips_end
    \/ send_alert
    \/ \E res \in SinkResults : call_bot_exe(res)
    \/ main_sleep

Spec == Init /\ [][Next]_vars

\* ------------------------------------------- one call on a large host list
\* The first call of monitor_ips with more hosts than the executor has
\* workers.  The rows are equal (iplist.csv may repeat a row), and the
\* threshold equals the number of rows, so that the run stays small.
PoolSize == max_workers + PoolExtra
PoolHosts == [i \in 1..PoolSize |-> <<"A", "10.0.0.1">>]

InitPool ==
    /\ config_file = [Defaults EXCEPT !.failure_threshold = IntLit(PoolSize),
                                      !.enabled = <<"x">>]
    /\ csv_file = [status |-> "ok", rows |-> PoolHosts]
    /\ pc = "loop"
    /\ interval = fallback_interval /\ platforms = <<"x">>
    /\ ping_count = fallback_ping_count /\ ping_timeout = fallback_ping_timeout
    /\ failure_threshold = PoolSize
    /\ ip_list = PoolHosts
    /\ has_failure_count = FALSE /\ failure_count = <<>>
    /\ alert_list = <<>>
    /\ submitted = 0 /\ started = 0 /\ running = <<>> /\ finished = <<>>
    /\ collected = 0
    /\ cur = NoCur /\ chan = 0 /\ sink_log = <<>> /\ hist = <<>>
    /\ message = NoMessage
    /\ cycle = 0
    /\ ping_call = NoCall /\ ping_result = NoResult
    /\ plan = <<>> /\ start_count = <<>>

NextPool ==
    \/ monitor_ips_begin
    \/ executor_submit
    \/ worker_start
    \/ \E h \in DOMAIN running : ping_ip_done(h)
    \/ \E h \in DOMAIN finished, o \in Outcomes : as_completed_next(h, o)
    \/ monitor_ips_end
    \/ send_alert
    \/ \E res \in SinkResults : call_bot_exe(res)

SpecPool == InitPool /\ [][NextPool]_vars

\* =================================================================== claims
UniqueAddr(h) == Cardinality({i \in DOMAIN ip_list : ip_list[i][2] = h[2]}) = 1
\* The number of unreachable results in a log of hist.
UnreachRun(log) ==
    IF log # <<>> /\ log[1] = "reachable" THEN Len(log) - 1 ELSE Len(log)
AlertSet == {alert_list[i] : i \in DOMAIN alert_list}
\* A step of the as_completed loop.
CollectStep == collected' = collected + 1
HostA == <<"A", "10.0.0.1">>
HostB == <<"B", "10.0.0.2">>
U == "unreachable"
R == "reachable"

\* C1: for a host whose address is unique in the host list, the counter of
\* its address equals the number of unreachable results its probes returned
\* since the start (counter 0) or since its last reachable result: N
\* consecutive unreachable results give N, and a reachable result gives 0.
C1_CounterFollowsResults ==
    has_failure_count =>
        \A h \in HostsOf(ip_list) :
            UniqueAddr(h) =>
                /\ failure_count[h[2]] = UnreachRun(hist[h])
                /\ (hist[h] # <<>> /\ hist[h][Len(hist[h])] = R)
                       => failure_count[h[2]] = 0
                /\ (\A i \in DOMAIN hist[h] : hist[h][i] = U)
                       => failure_count[h[2]] = Len(hist[h])

\* C1 witness: a host was reset by a reachable result and then found
\* unreachable in two cycles: its counter is 2.
C1_Witness ==
    /\ has_failure_count
    /\ \E h \in HostsOf(ip_list) :
          UniqueAddr(h) /\ hist[h] = <<R, U, U>> /\ failure_count[h[2]] = 2

\* C2: the threshold is inclusive.  A step of the loop that reads an
\* unreachable result appends the host to the alert list when the counter
\* after the increment equals failure_threshold, and leaves the list alone
\* when it equals failure_threshold - 1.  In the scenario of hosts A and B
\* with threshold 2, the end of cycle 2 (A down twice, B up then down) has
\* counts {A:2, B:1} and alert set {A}; the end of cycle 3 (A up, B down
\* again) has counts {A:0, B:2} and alert set {B}.
C2_Scenario ==
    (/\ ip_list = <<HostA, HostB>> /\ failure_threshold = 2
     /\ pc \in {"send_alert", "push", "sleep"}) =>
        /\ (cycle = 2 /\ hist[HostA] = <<U, U>> /\ hist[HostB] = <<R, U>>)
              => /\ failure_count = [ip \in Addrs |-> IF ip = HostA[2] THEN 2 ELSE 1]
                 /\ AlertSet = {<<"A", HostA[2], 2>>}
        /\ (cycle = 3 /\ hist[HostA] = <<R>> /\ hist[HostB] = <<R, U, U>>)
              => /\ failure_count = [ip \in Addrs |-> IF ip = HostA[2] THEN 0 ELSE 2]
                 /\ AlertSet = {<<"B", HostB[2], 2>>}

C2_InclusiveThreshold ==
    /\ []C2_Scenario
    /\ [][(CollectStep /\ cur'.outcome = U) =>
            LET c == failure_count'[cur'.ip] IN
                /\ c = failure_threshold =>
                      alert_list' = Append(alert_list, <<cur'.hostname, cur'.ip, c>>)
                /\ c = failure_threshold - 1 => alert_list' = alert_list]_vars

\* C2 witness: the scenario's third cycle has ended.
C2_Witness ==
    /\ ip_list = <<HostA, HostB>> /\ failure_threshold = 2 /\ pc = "sleep"
    /\ cycle = 3 /\ hist[HostA] = <<R>> /\ hist[HostB] = <<R, U, U>>
    /\ AlertSet = {<<"B", HostB[2], 2>>}

InAlertList(h) == \E i \in DOMAIN alert_list : alert_list[i][1] = h[1] /\ alert_list[i][2] = h[2]
CycleDone == pc \in {"send_alert", "push", "sleep"}

\* C3 as stated, for hosts with an address of their own: whenever the counter
\* of a host is at or above the threshold once the cycle's update is done,
\* the host is in the cycle's alert list.
C3_Original ==
    CycleDone =>
        \A h \in HostsOf(ip_list) :
            (UniqueAddr(h) /\ failure_count[h[2]] >= failure_threshold)
                => InAlertList(h)

\* C3 as amended: a step of the loop that reads an unreachable result for a
\* host and leaves the counter at or above failure_threshold appends the host
\* with that count to the cycle's alert list, in every such cycle and not only
\* in the one where the threshold is crossed; the entries stay in the list
\* until the cycle ends, and a cycle that ends with a non-empty list hands it
\* to send_alert.
C3_AlertedWhileDown ==
    [][/\ (CollectStep /\ cur'.outcome = U
              /\ failure_count'[cur'.ip] >= failure_threshold)
          => alert_list' = Append(alert_list,
                 <<cur'.hostname, cur'.ip, failure_count'[cur'.ip]>>)
       /\ (CollectStep /\ alert_list' # alert_list)
          => /\ Len(alert_list') = Len(alert_list) + 1
             /\ \A i \in DOMAIN alert_list : alert_list'[i] = alert_list[i]
       /\ (pc = "as_completed" /\ pc' # "as_completed" /\ alert_list # <<>>)
          => pc' = "send_alert" /\ alert_list' = alert_list
       /\ (pc \in {"send_alert", "push"}) => alert_list' = alert_list]_vars

\* C3 witness: a host above the threshold (past the crossing) is in the list
\* that send_alert is pushing.
C3_Witness ==
    /\ pc = "push"
    /\ \E h \in HostsOf(ip_list) :
          /\ UniqueAddr(h)
          /\ \E i \in DOMAIN alert_list :
                /\ alert_list[i] = <<h[1], h[2], failure_count[h[2]]>>
                /\ alert_list[i][3] > failure_threshold

\* C4: a cycle whose alert list is empty makes no call of call_bot_exe, with
\* no, one or two platforms enabled.
C4_NoAlertNoSink ==
    alert_list = <<>> => sink_log = <<>> /\ pc # "push"

\* C4 witness: a cycle with two platforms enabled has ended with no alert.
C4_Witness ==
    /\ pc = "sleep" /\ alert_list = <<>> /\ Len(platforms) = 2
    /\ collected = Len(ip_list)

\* C5: at most 50 probes are in flight, also with more than 50 hosts; the
\* probes beyond that stay queued while 50 are in flight.
C5_AtMostFiftyInFlight ==
    /\ InFlight <= 50
    /\ InFlight + BagSize(finished, DOMAIN finished) + collected = started
    /\ (InFlight = 50 /\ started < submitted) => ~ENABLED worker_start

\* C5 witness: 50 probes are in flight and another one is queued.
C5_Witness ==
    /\ Len(ip_list) > 50 /\ InFlight = 50 /\ started < submitted

\* C6: within one send_alert, call_bot_exe is called for every platform in
\* order whatever the earlier calls did: once a call is logged, either the
\* loop is at the next platform or every platform has had its call.
C6_EveryChannelAttempted ==
    sink_log # <<>> =>
        /\ Len(sink_log) <= Len(platforms)
        /\ \A i \in DOMAIN sink_log : sink_log[i].platform = platforms[i]
        /\ \/ pc = "push" /\ chan = Len(sink_log) + 1
           \/ Len(sink_log) = Len(platforms)

\* C6 witness: the first platform's push failed and the second one's ran.
C6_Witness ==
    /\ Len(sink_log) = 2
    /\ sink_log[1].res \in {"nonzero", "timeout"}
    /\ sink_log[2].res = "ok" /\ sink_log[2].platform = "y"

\* C7: a step of the loop whose future.result() raises changes no counter
\* and no alert entry; while that host is the one last read, the list has no
\* entry for it, and its counter is the number of unreachable results since
\* its last reachable one, as if the raised probe had not been run.
C7_FaultExcluded ==
    /\ [][(CollectStep /\ cur'.outcome = "fault")
            => failure_count' = failure_count /\ alert_list' = alert_list]_vars
    /\ [](\A h \in HostsOf(ip_list) :
            (/\ pc = "as_completed" /\ cur.outcome = "fault"
             /\ cur.hostname = h[1] /\ cur.ip = h[2] /\ UniqueAddr(h))
                => /\ ~InAlertList(h)
                   /\ failure_count[h[2]] = UnreachRun(hist[h]))

\* C7 witness: the probe of a host at the threshold raised.
C7_Witness ==
    /\ pc = "as_completed" /\ cur.outcome = "fault"
    /\ UniqueAddr(<<cur.hostname, cur.ip>>)
    /\ failure_count[cur.ip] >= failure_threshold
    /\ Len(ip_list) = 2 /\ collected = 2 /\ alert_list # <<>>

\* C8: from the first call of monitor_ips on, failure_count has one key per
\* address of the host list, every counter is a natural number, and a step
\* changes at most one counter, by +1 or to 0.
C8_CounterShape ==
    /\ [](has_failure_count =>
            /\ DOMAIN failure_count = IpsOf(ip_list)
            /\ \A ip \in DOMAIN failure_count : failure_count[ip] \in Nat)
    /\ [][has_failure_count =>
            /\ DOMAIN failure_count' = DOMAIN failure_count
            /\ \A ip \in DOMAIN failure_count :
                  \/ failure_count'[ip] = failure_count[ip]
                  \/ failure_count'[ip] = failure_count[ip] + 1
                  \/ failure_count'[ip] = 0
            /\ Cardinality({ip \in DOMAIN failure_count :
                              failure_count'[ip] # failure_count[ip]}) <= 1]_vars

\* C8 witness: two hosts share one address and one counter, which two
\* unreachable results of one cycle raised to 2 and a later reachable one
\* reset.
C8_Witness ==
    /\ has_failure_count /\ Len(ip_list) = 2
    /\ Cardinality(DOMAIN failure_count) = 1
    /\ cycle = 2 /\ cur.outcome = R
    /\ \E h \in HostsOf(ip_list) : hist[h] = <<U>> /\ failure_count[h[2]] = 0

\* C9 as stated: once the host list is loaded non-empty the process has no
\* terminal state.
C9_NoTerminalState ==
    Truthy(ip_list) => pc \notin {"crashed", "exited"}

\* Beside C9: the negative interval is the only way from a loaded host list to
\* a terminal state; no probe result and no push result leads to one.
C9_OnlySleepEndsTheLoop ==
    /\ [](Truthy(ip_list) /\ pc \in {"crashed", "exited"}
            => pc = "crashed" /\ interval < 0)
    /\ [][(Truthy(ip_list) /\ pc' \in {"crashed", "exited"} /\ pc' # pc)
            => pc = "sleep"]_vars

\* C10 as stated: a missing or malformed config.conf, or a key with a value
\* that is no integer, never ends the process.
ConfigError ==
    \/ config_file.status # "ok"
    \/ \E f \in {config_file.interval, config_file.ping_count,
                 config_file.ping_timeout, config_file.failure_threshold} :
          f.kind = "bad"
C10_ConfigErrorNotFatal ==
    ConfigError => pc # "crashed"

\* C11 as stated: the process ends by itself only on a host-list error, and
\* then before any cycle, probe or push.
HostListError == ~Truthy(load_ips_from_csv(csv_file))
C11_OnlyHostListErrorEnds ==
    pc \in {"exited", "crashed"} =>
        /\ HostListError /\ pc = "exited"
        /\ cycle = 0 /\ started = 0 /\ sink_log = <<>>

\* Beside C11: with a configuration that loads, a host-list error ends the
\* process before any cycle, probe or push, and nothing else reaches "exited".
C11_HostListErrorExits ==
    /\ (HostListError /\ pc \notin {"load_config", "read_settings", "load_ips",
                                   "crashed"}) => pc = "exited"
    /\ pc = "exited" =>
          /\ HostListError /\ ~has_failure_count
          /\ cycle = 0 /\ submitted = 0 /\ started = 0 /\ sink_log = <<>>

\* C12 as stated: every entry of the alert list given to send_alert is for an
\* address whose counter is at or above the threshold once the cycle's update
\* is done, and carries that counter, shared addresses included.
C12_EntriesCarryCounters ==
    pc \in {"send_alert", "push"} =>
        \A i \in DOMAIN alert_list :
            /\ failure_count[alert_list[i][2]] >= failure_threshold
            /\ alert_list[i][3] = failure_count[alert_list[i][2]]

\* Beside C12: the statement holds for the entries of hosts with an address
\* of their own.
C12_UniqueEntriesCarryCounters ==
    pc \in {"send_alert", "push"} =>
        \A i \in DOMAIN alert_list :
            UniqueAddr(<<alert_list[i][1], alert_list[i][2]>>) =>
                /\ failure_count[alert_list[i][2]] >= failure_threshold
                /\ alert_list[i][3] = failure_count[alert_list[i][2]]

\* The futures of the cycle that are done and not yet read.
Unread == BagSize(finished, DOMAIN finished)
\* The number of work items of host row h a worker has taken so far.
StartsOf(h) == Cardinality({i \in 1..started : ip_list[i] = h})
\* Every probe of the cycle was submitted, run and read.
AllJoined ==
    /\ submitted = Len(ip_list) /\ started = Len(ip_list)
    /\ collected = Len(ip_list)
    /\ InFlight = 0 /\ Unread = 0

\* C13 as stated: no counter is incremented or reset while a probe of the
\* same cycle is still queued or running.  (cur holds the result the loop
\* body has just counted or reset by; until the next result is read only
\* worker threads move, and they start or end probes.)
C13_Original ==
    (pc = "as_completed" /\ cur.outcome \in {U, R}) =>
        (started = submitted /\ InFlight = 0)

\* C13, amended: once created, the counters change only in a step of the
\* control thread's as_completed loop, after every probe of the cycle was
\* submitted, for the address of one probe that is done, and by that probe's
\* result; a step that ends a probe in its worker thread changes no counter.
C13_ControlThreadFolds ==
    [][(has_failure_count /\ failure_count' # failure_count) =>
           /\ pc = "as_completed" /\ pc' = "as_completed"
           /\ submitted = Len(ip_list)
           /\ CollectStep
           /\ running' = running
           /\ \E h \in DOMAIN finished :
                 /\ finished[h] > 0
                 /\ finished' = [finished EXCEPT ![h] = @ - 1]
                 /\ cur'.ip = h[2] /\ cur'.outcome \in {U, R}
                 /\ failure_count' = fold_result(failure_count, h[2], cur'.outcome)]_vars

\* C13 witness: a counter was raised from a result read while another probe
\* of the cycle is still running.
C13_Witness ==
    /\ pc = "as_completed" /\ cycle = 1
    /\ cur.outcome = U /\ failure_count[cur.ip] = 1
    /\ InFlight > 0

\* C14: send_alert, every push and the sleep run only after every probe of
\* the cycle was started, has ended and had its result read; the same holds
\* when the next cycle is about to start.
C14_CycleJoinsItsProbes ==
    /\ pc \in {"send_alert", "push", "sleep"} => AllJoined
    /\ sink_log # <<>> => AllJoined
    /\ (pc = "loop" /\ cycle > 0) => AllJoined
    /\ (pc = "submit" /\ submitted = 0) => (InFlight = 0 /\ Unread = 0)

\* C14 witness: the second cycle pushes an alert about two hosts.
C14_Witness ==
    /\ pc = "push" /\ cycle = 2
    /\ Len(ip_list) = 2 /\ collected = 2 /\ Len(alert_list) = 2

\* C15: within a cycle the work items are started in the order of the host
\* list, each at most once; every started probe is running, done and unread,
\* or read, and never more than once per work item; results are read only
\* once every host was submitted; and a cycle ends with one probe started
\* and one result read for every row of the host list.
C15_OneProbePerHost ==
    has_failure_count =>
        /\ submitted <= Len(ip_list) /\ started <= submitted
        /\ collected + Unread + InFlight = started
        /\ \A h \in HostsOf(ip_list) : running[h] + finished[h] <= StartsOf(h)
        /\ pc = "as_completed" => submitted = Len(ip_list)
        /\ pc = "submit" => collected = 0
        /\ pc \in {"send_alert", "push", "sleep", "loop"} =>
              /\ started = Len(ip_list) /\ collected = Len(ip_list)
              /\ \A h \in HostsOf(ip_list) : running[h] = 0 /\ finished[h] = 0

\* C15 witness: a cycle over two hosts has ended; one probe faulted and the
\* other returned unreachable.
C15_Witness ==
    /\ pc = "sleep" /\ Len(ip_list) = 2 /\ UniqueAddr(ip_list[1])
    /\ started = 2 /\ collected = 2
    /\ cycle = 1 /\ hist[ip_list[1]] = <<U>> /\ hist[ip_list[2]] = <<>>

\* C16: a non-empty alert list gives one message with one row per alert
\* entry, in the order of the list; call_bot_exe is called with that same
\* message once for every platform, in the order of platforms, so that the
\* cycle ends with as many calls as there are platforms.
C16_OneReportPerChannel ==
    /\ pc = "push" =>
          /\ Truthy(alert_list) /\ chan = Len(sink_log) + 1
          /\ chan <= Len(platforms)
    /\ (pc \in {"push", "sleep", "loop"} /\ Truthy(alert_list)) =>
          /\ Len(message) = Len(alert_list) + 6
          /\ \A i \in DOMAIN alert_list :
                message[4 + i] = [hostname |-> alert_list[i][1],
                                  ip |-> alert_list[i][2],
                                  count |-> alert_list[i][3]]
    /\ \A i \in DOMAIN sink_log :
          /\ i <= Len(platforms) /\ sink_log[i].platform = platforms[i]
          /\ sink_log[i].message = message
    /\ (pc \in {"sleep", "loop"} /\ Truthy(alert_list)) =>
          Len(sink_log) = Len(platforms)

\* C16 witness: an alert about two hosts went to two platforms.
C16_Witness ==
    /\ pc = "sleep" /\ Len(alert_list) = 2
    /\ Len(platforms) = 2 /\ Len(sink_log) = 2
    /\ sink_log[1].message = sink_log[2].message
    /\ Len(sink_log[1].message) = 8

\* ------------------------------------------------------- one ping_ip call
\* ping_call is the call and its surroundings: platform.system(), and what
\* subprocess.run gives back: the exit status and, in the order of the
\* output text, the numbers the time pattern and the TTL pattern match
\* (whole milliseconds; a text without a match gives an empty sequence).
Systems == {"windows", "linux"}
Timeouts == {1, 500, 1000, 1500, 3000}
TtlValues == {64, 128}
SeqsUpTo(S, n) == UNION {[1..k -> S] : k \in 0..n}
PingCalls ==
    [system : Systems, ip : {"10.0.0.1"}, returncode : {0, 1},
     times : SeqsUpTo(0..MaxTime, MaxPings),
     ttls : SeqsUpTo(TtlValues, MaxTtls)]

\* "未知": the value of a detail the output did not give.
Unknown == <<>>
Known(n) == <<n>>

\* The ping command line: -n count -w milliseconds on Windows, -c count
\* -W seconds elsewhere.
ping_args(system, ip, count, timeout) ==
    IF system = "windows"
    THEN [count_flag |-> "-n", count |-> count,
          timeout_flag |-> "-w", timeout |-> timeout, ip |-> ip]
    ELSE [count_flag |-> "-c", count |-> count,
          timeout_flag |-> "-W", timeout |-> timeout \div 1000, ip |-> ip]

\* The time ping waits for one reply under a command line, in milliseconds.
TimeoutMs(args) ==
    IF args.timeout_flag = "-w" THEN args.timeout ELSE args.timeout * 1000

RECURSIVE sum(_)
sum(seq) == IF seq = <<>> THEN 0 ELSE Head(seq) + sum(Tail(seq))

\* Variant: round(sum / len), halves upwards.
response_time_Rounded(response_times) ==
    (2 * sum(response_times) + Len(response_times)) \div (2 * Len(response_times))

\* int(sum(response_times) / len(response_times)) on times that are >= 0.
response_time(response_times) ==
    sum(response_times) \div Len(response_times)

\* Variant: the last match of the TTL pattern.
ttl_match_Last(ttls) == ttls[Len(ttls)]

\* re.search: the first match of the TTL pattern.
ttl_match(ttls) == ttls[1]

\* details of a reachable host.
parse_details(call) ==
    [response_time |-> IF call.times # <<>> THEN Known(response_time(call.times))
                       ELSE Unknown,
     ttl |-> IF call.ttls # <<>> THEN Known(ttl_match(call.ttls)) ELSE Unknown]

InitProbe ==
    /\ config_file = Defaults
    /\ csv_file = [status |-> "ok", rows |-> <<<<"A", "10.0.0.1">>>>]
    /\ pc = "ping_ip"
    /\ interval = fallback_interval /\ platforms = <<>>
    /\ ping_count \in 1..MaxPings
    /\ ping_timeout \in Timeouts
    /\ failure_threshold = fallback_failure_threshold
    /\ ip_list = <<<<"A", "10.0.0.1">>>>
    /\ has_failure_count = FALSE /\ failure_count = <<>>
    /\ alert_list = <<>>
    /\ submitted = 0 /\ started = 0 /\ running = <<>> /\ finished = <<>>
    /\ collected = 0
    /\ cur = NoCur /\ chan = 0 /\ sink_log = <<>> /\ hist = <<>>
    /\ message = NoMessage
    /\ cycle = 0
    /\ ping_call \in {c \in PingCalls : Len(c.times) <= ping_count}
    /\ ping_result = NoResult
    /\ plan = <<>> /\ start_count = <<>>

\* ping_ip up to subprocess.run: the command line.
ping_ip_command ==
    /\ pc = "ping_ip"
    /\ ping_result' = [args |-> ping_args(ping_call.system, ping_call.ip,
                                          ping_count, ping_timeout)]
    /\ pc' = "ping_parse"
    /\ UNCHANGED <<input_vars, config_vars, ip_list, has_failure_count,
                   failure_count, alert_list, pool_vars, cur, chan, message,
                   sink_log, hist, cycle, ping_call, plan, start_count>>

\* ping_ip from the exit status to the return value.
ping_ip_parse ==
    /\ pc = "ping_parse"
    /\ LET reachable == ping_call.returncode = 0
       IN ping_result' = [args |-> ping_result.args, reachable |-> reachable,
                          details |-> IF reachable THEN parse_details(ping_call)
                                      ELSE <<>>]
    /\ pc' = "ping_return"
    /\ UNCHANGED <<input_vars, config_vars, ip_list, has_failure_count,
                   failure_count, alert_list, pool_vars, cur, chan, message,
                   sink_log, hist, cycle, ping_call, plan, start_count>>

NextProbe ==
    \/ ping_ip_command
    \/ ping_ip_parse

SpecProbe == InitProbe /\ [][NextProbe]_vars

\* C17 as stated: the response time of a reachable host with at least one
\* parsed time is the mean of the times rounded to the nearest integer, a
\* half upwards (1 and 2 give 2).
C17_Original ==
    (pc = "ping_return" /\ ping_result.reachable /\ ping_call.times # <<>>) =>
        \E rt \in 0..MaxTime :
            /\ ping_result.details.response_time = Known(rt)
            /\ 2 * Len(ping_call.times) * rt
                  <= 2 * sum(ping_call.times) + Len(ping_call.times)
            /\ 2 * sum(ping_call.times) + Len(ping_call.times)
                  < 2 * Len(ping_call.times) * (rt + 1)

\* C17, amended: the response time of a reachable host with at least one
\* parsed time is the mean of the times with its fraction dropped: the
\* largest integer rt with rt * (number of times) <= (sum of the times).
C17_MeanTruncated ==
    (pc = "ping_return" /\ ping_result.reachable /\ ping_call.times # <<>>) =>
        \E rt \in 0..MaxTime :
            /\ ping_result.details.response_time = Known(rt)
            /\ Len(ping_call.times) * rt <= sum(ping_call.times)
            /\ sum(ping_call.times) < Len(ping_call.times) * (rt + 1)

\* C17 witness: the times 1 and 2 gave the response time 1.
C17_Witness ==
    /\ pc = "ping_return" /\ ping_result.reachable
    /\ ping_call.times = <<1, 2>>
    /\ ping_result.details.response_time = Known(1)

\* C18 as stated: reachable follows the exit status alone; the ttl of a
\* reachable host is the last TTL of the output, and is unknown when the
\* output has none.
C18_Original ==
    pc = "ping_return" =>
        /\ ping_result.reachable = (ping_call.returncode = 0)
        /\ ping_result.reachable =>
              ping_result.details.ttl =
                  IF ping_call.ttls = <<>> THEN Unknown
                  ELSE Known(ping_call.ttls[Len(ping_call.ttls)])

\* C18, amended: reachable follows the exit status alone; the ttl of a
\* reachable host is the first TTL of the output, and is unknown when the
\* output has none; an unreachable host has no details.
C18_FirstTtl ==
    pc = "ping_return" =>
        /\ ping_result.reachable = (ping_call.returncode = 0)
        /\ ping_result.reachable =>
              ping_result.details.ttl =
                  IF ping_call.ttls = <<>> THEN Unknown
                  ELSE Known(ping_call.ttls[1])
        /\ ~ping_result.reachable => ping_result.details = <<>>

\* C18 witness: an output with the TTLs 64 and then 128 gave the ttl 64.
C18_Witness ==
    /\ pc = "ping_return" /\ ping_result.reachable
    /\ ping_call.ttls = <<64, 128>>
    /\ ping_result.details.ttl = Known(64)

\* C19 as stated: the timeout of the command line is the configured
\* ping_timeout, on either platform.
C19_TimeoutExact ==
    pc \in {"ping_parse", "ping_return"} =>
        TimeoutMs(ping_result.args) = ping_timeout

\* Beside C19: the Windows command line carries ping_timeout itself, and the
\* other one never a longer time than ping_timeout.
C19_WindowsExact ==
    pc \in {"ping_parse", "ping_return"} =>
        /\ ping_call.system = "windows" =>
              TimeoutMs(ping_result.args) = ping_timeout
        /\ TimeoutMs(ping_result.args) <= ping_timeout

\* ------------------------------------- one cycle with given probe results
\* One call of monitor_ips after earlier ones, over hosts with an address
\* each: start_count is failure_count as the call finds it and plan gives
\* what the probe of each host will hand to future.result().  The workers
\* and the as_completed loop are those of Spec, so that the probes end and
\* are read in every order.
OrderAddrs == <<"10.0.0.1", "10.0.0.2", "10.0.0.3", "10.0.0.4">>
OrderHosts == [i \in 1..MaxHosts |-> <<Names[i], OrderAddrs[i]>>]
OrderThreshold == fallback_failure_threshold - 1

InitOrder ==
    /\ config_file = [Defaults EXCEPT !.failure_threshold = IntLit(OrderThreshold)]
    /\ csv_file = [status |-> "ok", rows |-> OrderHosts]
    /\ pc = "loop"
    /\ interval = fallback_interval /\ platforms = <<>>
    /\ ping_count = fallback_ping_count /\ ping_timeout = fallback_ping_timeout
    /\ failure_threshold = OrderThreshold
    /\ ip_list = OrderHosts
    /\ has_failure_count = TRUE
    /\ start_count \in [IpsOf(OrderHosts) -> 0..OrderThreshold]
    /\ failure_count = start_count
    /\ alert_list = <<>>
    /\ submitted = 0 /\ started = 0 /\ collected = 0
    /\ running = [h \in HostsOf(OrderHosts) |-> 0]
    /\ finished = [h \in HostsOf(OrderHosts) |-> 0]
    /\ cur = NoCur /\ chan = 0 /\ sink_log = <<>>
    /\ hist = [h \in HostsOf(OrderHosts) |-> [i \in 1..start_count[h[2]] |-> U]]
    /\ message = NoMessage
    /\ cycle = MaxCycles - 1
    /\ ping_call = NoCall /\ ping_result = NoResult
    /\ plan \in [HostsOf(OrderHosts) -> Outcomes]

NextOrder ==
    \/ monitor_ips_begin
    \/ executor_submit
    \/ worker_start
    \/ \E h \in DOMAIN running : ping_ip_done(h)
    \/ \E h \in DOMAIN finished : as_completed_next(h, plan[h])
    \/ monitor_ips_end
    \/ send_alert

SpecOrder == InitOrder /\ [][NextOrder]_vars

\* What a cycle makes of the counter of host h, and whether it lists h.
CountAfter(h) ==
    CASE plan[h] = U -> start_count[h[2]] + 1
      [] plan[h] = R -> 0
      [] OTHER -> start_count[h[2]]
ListedAfter(h) == plan[h] = U /\ start_count[h[2]] + 1 >= failure_threshold

\* C20: with an address per host, whatever the order in which the probes end
\* and are read, the cycle ends with the counters and the set of alert
\* entries that the counters at its start and the result of every probe
\* determine, every entry once.
C20_OrderIndependent ==
    (pc \in {"send_alert", "sleep"} /\ cycle = MaxCycles) =>
        /\ \A h \in HostsOf(ip_list) : failure_count[h[2]] = CountAfter(h)
        /\ AlertSet = {<<h[1], h[2], CountAfter(h)>> :
                          h \in {g \in HostsOf(ip_list) : ListedAfter(g)}}
        /\ Cardinality(AlertSet) = Len(alert_list)

\* C20 witness: the cycle ended with the alert entry of the second host
\* before that of the first.
C20_Witness ==
    /\ pc = "sleep" /\ cycle = MaxCycles
    /\ Len(alert_list) >= 2
    /\ alert_list[1][1] = "B" /\ alert_list[2][1] = "A"

====
